---- MODULE Spec2Model ----
(***************************************************************************)
(* State-machine model of gns3/http_client.py (class HTTPClient): the      *)
(* deferred handshake of createHTTPQuery, the dispatcher                   *)
(* _executeHTTPQuery, the response classifier _processResponse and the     *)
(* streaming decoder _processDownloadProgress.                             *)
(*                                                                         *)
(* The Qt transport is the environment: it completes a request with an     *)
(* arbitrary (error code, HTTP status, content type, body) and delivers    *)
(* the bytes of a streamed response in chunks of arbitrary size.  Caller   *)
(* callbacks are recorded, they do not re-enter the client and do not      *)
(* raise.                                                                  *)
(***************************************************************************)
EXTENDS Integers, Sequences, FiniteSets, TLC

VARIABLES
    __version__, \* version string of the running client (fixed at start-up)
    connected,   \* self._connected
    inflight,    \* query_id -> request submitted to the transport, not finished
    nextId,      \* number of query ids generated so far (uuid4 is fresh)
    wire,        \* query_id -> streamed response as the transport holds it
    buffer,      \* self._buffer: query_id -> undecoded text
    decoded,     \* query_id -> values handed to downloadProgressCallback so far
    handles,     \* query_id -> the response handle (QNetworkReply) of the request
    sink,        \* query_id -> events the progress sink got for it, in order
                 \* (a run of progress events is kept as one)
    contexts,    \* the mapping objects callers pass as context, by name
    settings,    \* self._user, self._host, self._port
    _progress_callback, \* HTTPClient._progress_callback: "None" or "callback"
    progress_dialog, \* HTTPClient._progress_callback is set and its
                 \* progress_dialog() is not None
    canceled,    \* the query ids _requestCanceled is bound to, in the order of
                 \* the connections to the progress dialog's canceled signal
    ev           \* the last call, completion or close: its inputs and its
                 \* effects, in order

vars ==
    <<__version__, connected, inflight, nextId, wire, buffer, decoded, handles,
      sink, contexts, settings, _progress_callback, progress_dialog, canceled, ev>>

-----------------------------------------------------------------------------
(* Bounds *)

\* transport submissions (bootstrap probes included) in one behaviour
MaxRequests == 3
\* events the progress sink gets for one query
MaxEvents == 5
\* transport submissions (the bootstrap probe included) in a behaviour of
\* requests that end by abort
MaxFeeds == 2
\* createHTTPQuery calls whose bootstrap probes are in flight together
MaxProbes == 2

-----------------------------------------------------------------------------
(* Versions.  A version string "M.m.p" / "M.m.pdevN" is the tuple            *)
(* <<M, m, p, N>>, N = 0 when the string has no pre-release suffix.          *)

NoVersion == <<>>

StableClient == <<2, 1, 0, 0>>
DevClient == <<2, 1, 0, 1>>
ClientVersions == {StableClient, DevClient}

ServerVersions ==
    {<<2, 1, 0, 0>>, <<2, 1, 0, 1>>, <<2, 1, 1, 0>>, <<2, 2, 0, 0>>, <<1, 1, 0, 0>>}

\* __version_info__ of a client whose __version__ is v: 4th component 0 for a
\* stable release, negative for a development build
__version_info__(v) == <<v[1], v[2], v[3], IF v[4] = 0 THEN 0 ELSE 0 - 99>>

\* utils.parse_version: the comparable tuple of a version string, numbers
\* first, then the release type ("final" when the string has no suffix)
parse_version(v) ==
    IF v[4] = 0 THEN <<v[1], v[2], v[3], "final">>
                ELSE <<v[1], v[2], v[3], "dev", v[4]>>

-----------------------------------------------------------------------------
(* Response bodies.  A decoded JSON object is a record of the keys the      *)
(* client reads; an absent key holds NoVersion / "".                        *)

Dict(v, l, p, m) == [version |-> v, local |-> l, path |-> p, message |-> m]
EmptyDict == Dict(NoVersion, "", "", "")
Message(m) == Dict(NoVersion, "", "", m)

\* the /version answers of GNS3 servers of every version
VersionDocs == {Dict(v, "true", "", "") : v \in ServerVersions}

\* JSON objects a server may answer with: /version answers of an equal and of
\* another version, answers that lack a field, an error report with a path
Docs ==
    {Dict(<<2, 1, 0, 0>>, "true", "", ""), Dict(<<2, 2, 0, 0>>, "true", "", ""),
     Dict(<<2, 1, 0, 0>>, "", "", ""), Dict(NoVersion, "true", "", ""), EmptyDict,
     Dict(NoVersion, "", "/fingerprint", "")}

\* the bytes of a response body: not UTF-8 ("undecodable"), or the UTF-8
\* text of: nothing ("empty"); blanks, tabs and line feeds only, the
\* characters line 512 strips ("blank"); any other text that is no JSON,
\* white space with a carriage return such as CR LF included ("garbage");
\* a JSON object ("json")
Body(k, d) == [kind |-> k, doc |-> d]
Bodies ==
    {Body(k, EmptyDict) : k \in {"undecodable", "empty", "blank", "garbage"}}
        \cup {Body("json", d) : d \in Docs}

\* QNetworkReply.NoError
NoError == 0
\* QNetworkReply error codes: none, ConnectionRefusedError, ContentAccessDenied
ErrorCodes == {NoError, 1, 201}

NoStatus == 0
Statuses == {200, 400, 500}
ContentTypes == {"application/json", "text/html"}

Response(e, s, c, b) == [err |-> e, status |-> s, ctype |-> c, body |-> b]

\* bodies sent under a content type that is not JSON
OtherBodies ==
    {Body("empty", EmptyDict), Body("garbage", EmptyDict),
     Body("json", Dict(NoVersion, "", "/fingerprint", "")),
     Body("json", Dict(<<2, 1, 0, 0>>, "true", "", ""))}

\* (error code, status) of a reply that carries an HTTP response: Qt flags
\* no error on a 200
Outcomes ==
    {o \in ErrorCodes \X Statuses :
        /\ o[1] = NoError \/ o[1] >= 200
        /\ o[1] = NoError \/ o[2] >= 400}

\* what a finished QNetworkReply can report: without an HTTP response there
\* is neither status nor content
Responses ==
    {Response(e, NoStatus, "", Body("empty", EmptyDict)) :
        e \in {x \in ErrorCodes : x # NoError /\ x < 200}}
    \cup {Response(o[1], o[2], "application/json", b) : o \in Outcomes, b \in Bodies}
    \cup {Response(o[1], o[2], "text/html", b) : o \in Outcomes, b \in OtherBodies}
    \cup {Response(NoError, 200, "application/json", Body("json", d)) : d \in VersionDocs}

-----------------------------------------------------------------------------
(* Calls, requests and the effects of a handler *)

\* timeout=None, the timeout=5 of the bootstrap probe, the default timeout=120
NoTimeout == 0
ProbeTimeout == 5
DefaultTimeout == 120

\* the arguments of one createHTTPQuery call: callback is "None" or the
\* caller's function "cb"; downloadProgressCallback is given or not; body is
\* the kind and text of the body; context names the mapping object passed
CallWith(cb, ign, dpc, body, context, show, timeout) ==
    [path |-> "/projects", callback |-> cb, ignoreErrors |-> ign,
     downloadProgressCallback |-> dpc, body |-> body, context |-> context,
     showProgress |-> show, timeout |-> timeout]
\* body={}: an empty dict
DefaultBody == [kind |-> "dict", text |-> <<"{", "}">>]
\* a call that leaves body, context, showProgress and timeout at their defaults
Call(cb, ign, dpc) ==
    CallWith(cb, ign, dpc, DefaultBody, "default", TRUE, DefaultTimeout)
NoCall == Call("None", FALSE, FALSE)
Calls == {Call(cb, ign, dpc) : cb \in {"None", "cb"}, ign \in BOOLEAN, dpc \in BOOLEAN}

\* self._host as the text before its last "%", or all of it (rsplit)
RECURSIVE rsplit(_)
rsplit(host) ==
    IF ~(\E i \in 1..Len(host) : host[i] = "%") THEN host
    ELSE IF host[Len(host)] = "%" THEN SubSeq(host, 1, Len(host) - 1)
    ELSE rsplit(SubSeq(host, 1, Len(host) - 1))

\* ipaddress.IPv6Address accepts the text
IPv6Address(ip) == ip \in {<<"::1">>, <<"fe80::1">>}

\* lines 353-359: an IPv6 address loses its scope id and gets brackets
Host(host) ==
    IF IPv6Address(rsplit(host)) THEN <<"[">> \o rsplit(host) \o <<"]">>
    ELSE host

\* mutant: the path /version gets no prefix
Url_Bootstrap(path) ==
    <<"http", "://">>
    \o (IF settings.user # "" THEN <<settings.user, "@">> ELSE <<>>)
    \o Host(settings.host)
    \o (IF path = "/version" THEN <<":", settings.port, path>>
                             ELSE <<":", settings.port, "/v2", path>>)

\* lines 362-366: the URL of a request for path, for protocol http
Url(path) ==
    <<"http", "://">>
    \o (IF settings.user # "" THEN <<settings.user, "@">> ELSE <<>>)
    \o Host(settings.host) \o <<":", settings.port, "/v2", path>>

\* json.dumps of a mapping that is given by its compact text (no white space
\* between the tokens): the default separators put a blank after every ":"
\* and "," between the tokens, and ensure_ascii writes a character of a
\* string that is not ASCII ("e") as an escape of six ASCII characters, whose
\* hexadecimal digit e is written "E" here, "e" being taken;
\* string tells whether text starts inside a string
RECURSIVE iterencode(_, _)
iterencode(text, string) ==
    IF text = <<>> THEN <<>>
    ELSE LET c == text[1]
         IN  (IF c = "e" THEN <<"\\", "u", "0", "0", "E", "9">>
              ELSE IF ~string /\ c \in {":", ","} THEN <<c, " ">>
              ELSE <<c>>)
             \o iterencode(Tail(text), IF c = "q" THEN ~string ELSE string)

dumps(text) == iterencode(text, FALSE)

\* str.encode(): the UTF-8 bytes of a text, two ("L", "T") for "e"
RECURSIVE encode(_)
encode(text) ==
    IF text = <<>> THEN <<>>
    ELSE (IF text[1] = "e" THEN <<"L", "T">> ELSE <<text[1]>>)
         \o encode(Tail(text))

\* what _addBodyToRequest returns and the headers it sets: no device and no
\* header stand for None and for a header that is not set
Content(device, data, ctype, clength) ==
    [device |-> device, data |-> data, ContentType |-> ctype,
     ContentLength |-> clength]
NoContent == Content("None", <<>>, "", <<>>)

\* lines 283-319, by the type of the body: None, dict, pathlib.Path, str, or
\* another ("bytes", "list")
_addBodyToRequest(body) ==
    IF body.kind = "None" THEN NoContent
    ELSE IF body.kind = "dict"
    THEN Content("QBuffer", encode(dumps(body.text)), "application/json",
                 <<Len(dumps(body.text))>>)
    ELSE IF body.kind = "Path"
    THEN Content("QFile", body.text, "application/octet-stream", <<>>)
    ELSE IF body.kind = "str"
    THEN Content("QBuffer", encode(body.text), "application/octet-stream", <<>>)
    ELSE NoContent

\* a request as _executeHTTPQuery hands it to the transport and binds it in
\* the observers; query is the call bound in a _callbackConnect partial
Request(path, cb, ign, dpc, query, body, context, show, timeout) ==
    [path |-> path, callback |-> cb, ignoreErrors |-> ign,
     downloadProgressCallback |-> dpc, query |-> query, body |-> body,
     context |-> context, showProgress |-> show, timeout |-> timeout,
     url |-> Url(path), content |-> _addBodyToRequest(body)]
NoRequest ==
    Request("", "None", FALSE, FALSE, NoCall, DefaultBody, "default", TRUE,
            DefaultTimeout)
NoResponse == Response(NoError, NoStatus, "", Body("empty", EmptyDict))
\* what an aborted QNetworkReply reports: OperationCanceledError
Canceled == Response(5, NoStatus, "", Body("empty", EmptyDict))

\* one effect of a handler; the fields an effect does not use hold defaults
Fx(t, params, error, context, raw, exc, fp, req, value) ==
    [t |-> t, params |-> params, error |-> error, context |-> context,
     raw_body |-> raw, exc |-> exc, fingerprint |-> fp, req |-> req,
     value |-> value]
\* callback(params, error=..., [context=...], [raw_body=...]) of the caller
CallFx(params, error, context, raw) ==
    Fx("callback", params, error, context, raw, "", "", NoRequest, <<>>)
\* self.close()
CloseFx == Fx("close", EmptyDict, FALSE, FALSE, FALSE, "", "", NoRequest, <<>>)
\* self._connected = True; connection_connected_signal.emit()
ConnectedFx == Fx("connected", EmptyDict, FALSE, FALSE, FALSE, "", "", NoRequest, <<>>)
\* self._network_manager.sendCustomRequest(...)
SubmitFx(req) == Fx("submit", EmptyDict, FALSE, FALSE, FALSE, "", "", req, <<>>)
\* an exception leaves the handler
RaiseFx(exc, fp) == Fx("raise", EmptyDict, FALSE, FALSE, FALSE, exc, fp, NoRequest, <<>>)
\* downloadProgressCallback(value, server=server, context=context)
ProgressFx(value) ==
    Fx("downloadProgressCallback", EmptyDict, FALSE, TRUE, FALSE, "", "", NoRequest, value)
\* response.abort(), on the response of query q
AbortFx(q) == Fx("abort", EmptyDict, FALSE, FALSE, FALSE, "", "", NoRequest, <<q>>)
\* self._notify_progress_end_query(context["query_id"]) of query q
EndFx(q) == Fx("end", EmptyDict, FALSE, FALSE, FALSE, "", "", NoRequest, <<q>>)
\* progress_dialog().canceled.connect(request_canceled)
CancelFx == Fx("canceled.connect", EmptyDict, FALSE, FALSE, FALSE, "", "", NoRequest, <<>>)

Event(op, q, req, resp, was, trace) ==
    [op |-> op, q |-> q, req |-> req, resp |-> resp, was |-> was, trace |-> trace]

-----------------------------------------------------------------------------
(* The handlers, as the sequence of effects they produce *)

_executeHTTPQuery(path, callback, ign, dpc, query, body, context, show, timeout) ==
    <<SubmitFx(Request(path, callback, ign, dpc, query, body, context, show,
                       timeout))>>

\* mutant: a call made while a probe is in flight waits for that probe
_connect_Coalesced(query) ==
    IF \E q \in DOMAIN inflight : inflight[q].callback = "_callbackConnect"
    THEN <<>>
    ELSE _executeHTTPQuery("/version", "_callbackConnect", FALSE, FALSE, query,
                           DefaultBody, "new", TRUE, ProbeTimeout)

\* the bootstrap: GET /version with body {}, a new empty context and
\* timeout=5, default options, the deferred call as callback
_connect(query) ==
    _executeHTTPQuery("/version", "_callbackConnect", FALSE, FALSE, query,
                      DefaultBody, "new", TRUE, ProbeTimeout)

_connectionError(callback) ==
    IF callback # "None"
    THEN <<CallFx(Message("Cannot connect"), TRUE, FALSE, FALSE)>>
    ELSE <<>>

\* mutant: the check of the first two components is lost
VersionMismatch_StableOnly(server) ==
    /\ server # __version__
    /\ __version_info__(__version__)[4] = 0

\* lines 263-275: the client refuses to talk to a server of this version
VersionMismatch(server) ==
    /\ server # __version__
    /\ \/ __version_info__(__version__)[4] = 0
       \/ SubSeq(parse_version(__version__), 1, 2) # SubSeq(parse_version(server), 1, 2)

\* mutant: the local field is not looked for
NotGNS3Server_VersionOnly(params) ==
    params.version = NoVersion

\* line 256: the /version answer lacks a field of a GNS3 server
NotGNS3Server(params) ==
    params.version = NoVersion \/ params.local = ""

\* mutant: the error flag of the probe is not looked at
_callbackConnect_Unchecked(query, params, error) ==
    IF NotGNS3Server(params)
    THEN IF query.callback # "None"
         THEN <<CallFx(Message("not a GNS3 server"), TRUE, FALSE, FALSE)>>
         ELSE <<>>
    ELSE IF VersionMismatch(params.version)
    THEN IF query.callback # "None"
         THEN <<CallFx(Message("version differs"), TRUE, FALSE, FALSE)>>
         ELSE <<>>
    ELSE <<ConnectedFx>> \o
         _executeHTTPQuery(query.path, query.callback, query.ignoreErrors,
                           query.downloadProgressCallback, NoCall, query.body,
                           query.context, query.showProgress, query.timeout)

_callbackConnect(query, params, error) ==
    IF error
    THEN _connectionError(query.callback)
    ELSE IF NotGNS3Server(params)
    THEN IF query.callback # "None"
         THEN <<CallFx(Message("not a GNS3 server"), TRUE, FALSE, FALSE)>>
         ELSE <<>>
    ELSE IF VersionMismatch(params.version)
    THEN IF query.callback # "None"
         THEN <<CallFx(Message("version differs"), TRUE, FALSE, FALSE)>>
         ELSE <<>>
    ELSE <<ConnectedFx>> \o
         _executeHTTPQuery(query.path, query.callback, query.ignoreErrors,
                           query.downloadProgressCallback, NoCall, query.body,
                           query.context, query.showProgress, query.timeout)

\* callback(params, error=error, server=server, context=context[, raw_body=body])
\* for a callback that is not None: the caller's function, or the
\* _callbackConnect partial of a bootstrap probe, whose effects follow
Invoke(req, params, error, raw) ==
    IF req.callback = "_callbackConnect"
    THEN <<Fx("_callbackConnect", params, error, TRUE, raw, "", "", NoRequest, <<>>)>>
         \o _callbackConnect(req.query, params, error)
    ELSE <<CallFx(params, error, TRUE, raw)>>

\* lines 522-530: raise HttpBadRequest, with the fingerprint when
\* json.loads(body)["path"] can be read
BadRequest(status, body) ==
    IF status = 400
    THEN <<RaiseFx("HttpBadRequest",
                   IF body.kind = "json" THEN body.doc.path ELSE "")>>
    ELSE <<>>

\* response.errorString()
error_message == Message("errorString")

\* mutant: the connection is not closed
TransportError_NoClose(req) ==
    IF ~req.ignoreErrors /\ req.callback # "None"
    THEN Invoke(req, error_message, TRUE, FALSE)
    ELSE <<>>

\* lines 469-474: no HTTP response was obtained
TransportError(req) ==
    IF ~req.ignoreErrors
    THEN <<CloseFx>> \o
         (IF req.callback # "None"
          THEN Invoke(req, error_message, TRUE, FALSE)
          ELSE <<>>)
    ELSE <<>>

\* mutant: after the parsed body the plain message is delivered too
HttpError_FallThrough(req, resp) ==
    LET body == resp.body
    IN  IF req.callback # "None"
        THEN (IF body.kind = "json" /\ resp.ctype = "application/json"
              THEN Invoke(req, body.doc, TRUE, FALSE)
              ELSE <<>>)
             \o Invoke(req, error_message, TRUE, FALSE)
             \o BadRequest(resp.status, body)
        ELSE IF body.kind = "undecodable"
             THEN <<RaiseFx("TypeError", "")>>
             ELSE BadRequest(resp.status, body)

\* lines 475-501: an HTTP response the transport flags as an error
HttpError(req, resp) ==
    LET body == resp.body
    IN  IF req.callback # "None"
        THEN (IF body.kind \in {"undecodable", "empty"}
                 \/ resp.ctype # "application/json"
              THEN Invoke(req, error_message, TRUE, FALSE)
              ELSE IF body.kind = "json"
              THEN Invoke(req, body.doc, TRUE, FALSE)
              ELSE Invoke(req, error_message, TRUE, FALSE))
             \o BadRequest(resp.status, body)
        ELSE IF body.kind = "undecodable"
             THEN <<RaiseFx("TypeError", "")>>
             ELSE BadRequest(resp.status, body)

\* lines 502-520: an HTTP response without error flag
NoErrorResponse(req, resp) ==
    LET body == resp.body
    IN  IF body.kind \in {"garbage", "json"} /\ resp.ctype = "application/json"
        THEN IF body.kind = "json"
             THEN (IF req.callback # "None"
                   THEN IF resp.status >= 400
                        THEN Invoke(req, body.doc, TRUE, FALSE)
                        ELSE Invoke(req, body.doc, FALSE, TRUE)
                   ELSE <<>>)
                  \o BadRequest(resp.status, body)
             ELSE <<RaiseFx("ValueError", "")>>
        ELSE (IF req.callback # "None"
              THEN IF resp.status >= 400
                   THEN Invoke(req, EmptyDict, TRUE, FALSE)
                   ELSE Invoke(req, EmptyDict, FALSE, TRUE)
              ELSE <<>>)
             \o BadRequest(resp.status, body)

\* mutant: a canceled operation has a path of its own, which only returns
_processResponse_CancelPath(req, resp) ==
    IF resp.err # NoError
    THEN IF resp.err < 200
         THEN IF resp.err = 5 THEN <<>> ELSE TransportError(req)
         ELSE HttpError(req, resp)
    ELSE NoErrorResponse(req, resp)

\* lines 451-530, after the end notification of lines 459-460
_processResponse(req, resp) ==
    IF resp.err # NoError
    THEN IF resp.err < 200
         THEN TransportError(req)
         ELSE HttpError(req, resp)
    ELSE NoErrorResponse(req, resp)

-----------------------------------------------------------------------------
(* The streaming decoder.  Bytes and characters are one-character strings:  *)
(* "q" stands for the double quote, "L" "T" for the two bytes of one        *)
(* non-ASCII character, "e" for that character.  A decoded JSON value is    *)
(* represented by its text.                                                 *)

\* bytes.decode("utf-8"): <<TRUE, text>>, or <<FALSE, <<>>>> for UnicodeDecodeError
RECURSIVE decode(_)
decode(bytes) ==
    IF bytes = <<>> THEN <<TRUE, <<>>>>
    ELSE IF bytes[1] = "T" THEN <<FALSE, <<>>>>
    ELSE IF bytes[1] = "L"
    THEN IF Len(bytes) >= 2 /\ bytes[2] = "T"
         THEN LET rest == decode(SubSeq(bytes, 3, Len(bytes)))
              IN  IF rest[1] THEN <<TRUE, <<"e">> \o rest[2]>> ELSE rest
         ELSE <<FALSE, <<>>>>
    ELSE LET rest == decode(Tail(bytes))
         IN  IF rest[1] THEN <<TRUE, <<bytes[1]>> \o rest[2]>> ELSE rest

\* str.lstrip(" \r\n\t")
RECURSIVE lstrip(_)
lstrip(s) == IF s # <<>> /\ s[1] = " " THEN lstrip(Tail(s)) ELSE s

\* the index of the first character of s at or after i that is no white
\* space (Len(s) + 1 when there is none)
RECURSIVE SkipSpace(_, _)
SkipSpace(s, i) == IF i <= Len(s) /\ s[i] = " " THEN SkipSpace(s, i + 1) ELSE i

\* the index after the string that opens at s[i] = "q"; 0 when it is not closed
RECURSIVE ScanString(_, _)
ScanString(s, i) ==
    IF i + 1 > Len(s) THEN 0
    ELSE IF s[i + 1] = "q" THEN i + 2
    ELSE ScanString(s, i + 1)

\* the index after the digits that start at s[i]
RECURSIVE ScanNumber(_, _)
ScanNumber(s, i) == IF i <= Len(s) /\ s[i] = "1" THEN ScanNumber(s, i + 1) ELSE i

\* json.scanner: the index after the JSON value that starts at s[i]; 0 when
\* none does (JSONDecodeError)
RECURSIVE ScanValue(_, _)
RECURSIVE ScanMembers(_, _)
ScanValue(s, i) ==
    IF i > Len(s) THEN 0
    ELSE IF s[i] = "q" THEN ScanString(s, i)
    ELSE IF s[i] = "1" THEN ScanNumber(s, i)
    ELSE IF s[i] = "{"
    THEN LET j == SkipSpace(s, i + 1)
         IN  IF j > Len(s) THEN 0
             ELSE IF s[j] = "}" THEN j + 1
             ELSE ScanMembers(s, j)
    ELSE 0
\* the members of an object from the key at s[j] to the closing brace
ScanMembers(s, j) ==
    IF j > Len(s) \/ s[j] # "q" THEN 0
    ELSE LET k == ScanString(s, j)
             c == SkipSpace(s, k)
         IN  IF k = 0 \/ c > Len(s) \/ s[c] # ":" THEN 0
             ELSE LET v == ScanValue(s, SkipSpace(s, c + 1))
                      e == SkipSpace(s, v)
                  IN  IF v = 0 \/ e > Len(s) THEN 0
                      ELSE IF s[e] = "}" THEN e + 1
                      ELSE IF s[e] = "," THEN ScanMembers(s, SkipSpace(s, e + 1))
                      ELSE 0

\* json.JSONDecoder().raw_decode(s): <<text of the value, index after it>>,
\* index 0 for ValueError
raw_decode(s) ==
    LET e == ScanValue(s, 1)
    IN  IF e = 0 THEN <<(<<>>), 0>> ELSE <<SubSeq(s, 1, e - 1), e>>

\* lines 428-435: the loop that decodes values off the front of content,
\* until raw_decode raises: <<values handed to the callback, content kept>>
RECURSIVE DecodeLoop(_)
DecodeLoop(content) ==
    LET stripped == lstrip(content)
        answer == raw_decode(stripped)
    IN  IF answer[2] = 0
        THEN <<(<<>>), stripped>>
        ELSE LET more == DecodeLoop(SubSeq(stripped, answer[2], Len(stripped)))
             IN  <<(<<answer[1]>> \o more[1]), more[2]>>

\* lines 439-441: with a progress dialog, its canceled signal is connected to
\* _requestCanceled for this response
Wiring ==
    IF _progress_callback # "None" /\ progress_dialog THEN <<CancelFx>> ELSE <<>>

\* mutant: the HTTP status of the response is not looked at
_processDownloadProgress_AnyStatus(err, status, ctype, bytes, buf) ==
    IF err # NoError THEN <<(<<>>), buf>>
    ELSE IF ctype = "application/json"
    THEN LET text == decode(bytes)
         IN  IF ~text[1]
             THEN <<(<<RaiseFx("UnicodeDecodeError", "")>>), buf>>
             ELSE LET content == IF buf # <<>> THEN buf[1] \o text[2] ELSE text[2]
                      out == DecodeLoop(content)
                      calls == [i \in 1..Len(out[1]) |-> ProgressFx(out[1][i])]
                  IN  <<calls \o Wiring, <<out[2]>> >>
    ELSE <<(<<ProgressFx(bytes)>> \o Wiring), buf>>

\* _processDownloadProgress for the bytes readAll() returns, on a response
\* with these attributes; buf is <<self._buffer[query_id]>>, or <<>> when the
\* query has no entry: <<effects, buf afterwards>>
_processDownloadProgress(err, status, ctype, bytes, buf) ==
    IF err # NoError THEN <<(<<>>), buf>>
    ELSE IF status >= 300 THEN <<(<<>>), buf>>
    ELSE IF ctype = "application/json"
    THEN LET text == decode(bytes)
         IN  IF ~text[1]
             THEN <<(<<RaiseFx("UnicodeDecodeError", "")>>), buf>>
             ELSE LET content == IF buf # <<>> THEN buf[1] \o text[2] ELSE text[2]
                      out == DecodeLoop(content)
                      calls == [i \in 1..Len(out[1]) |-> ProgressFx(out[1][i])]
                  IN  <<calls \o Wiring, <<out[2]>> >>
    ELSE <<(<<ProgressFx(bytes)>> \o Wiring), buf>>

\* response.abort() on the response to request req of query q: a reply that
\* is running stops and emits finished with OperationCanceledError before
\* abort() returns, so _processResponse runs inside the call; nothing follows
\* for a reply that has finished
abort(q, running, req) ==
    <<AbortFx(q)>> \o (IF running THEN _processResponse(req, Canceled) ELSE <<>>)

\* _timeoutSlot for the response of query q, which has received headers or
\* not, is running or not
_timeoutSlot(q, headers, running, req) ==
    IF ~headers THEN abort(q, running, req) ELSE <<>>

\* _requestCanceled for the response of query q, which is running or not
_requestCanceled(q, running, req) ==
    (IF running THEN abort(q, running, req) ELSE <<>>) \o <<EndFx(q)>>

-----------------------------------------------------------------------------
(* State changes of a handler's effects *)

Range(f) == {f[i] : i \in DOMAIN f}
Has(trace, t) == \E i \in 1..Len(trace) : trace[i].t = t
Only(trace, t) == SelectSeq(trace, LAMBDA e : e.t = t)

\* self._connected after the effects, in their order
ConnectedAfter(c, trace) ==
    IF Has(trace, "connected") THEN TRUE
    ELSE IF Has(trace, "close") THEN FALSE
    ELSE c

\* the requests in flight after q (0: none) finished and the trace's
\* submissions got fresh query ids
InflightAfter(q, trace) ==
    LET sub == Only(trace, "submit")
        new == (nextId + 1)..(nextId + Len(sub))
    IN  [i \in (DOMAIN inflight \ {q}) \cup new |->
            IF i \in new THEN sub[i - nextId].req ELSE inflight[i]]

\* the empty mapping, and a mapping a caller owns
NoContext == [k \in {} |-> 0]
CallerContext == [k \in {"node_id"} |-> 0]

\* mutant: query_id is set in the mapping passed in
BoundContext_InPlace(context, query_id) ==
    LET bound == [k \in DOMAIN context \cup {"query_id"} |->
                     IF k = "query_id" THEN query_id ELSE context[k]]
    IN  <<bound, bound>>

\* lines 378-379: context = copy.copy(context); context["query_id"] = ...:
\* <<the mapping passed in, afterwards; the mapping bound in the observers>>
BoundContext(context, query_id) ==
    <<context,
      [k \in DOMAIN context \cup {"query_id"} |->
          IF k = "query_id" THEN query_id ELSE context[k]]>>

\* the mapping objects after the trace's submissions; "new" is a {} literal
ContextsAfter(trace) ==
    LET sub == Only(trace, "submit")
    IN  IF sub = <<>> \/ sub[1].req.context = "new" THEN contexts
        ELSE [contexts EXCEPT ![sub[1].req.context] =
                 BoundContext(@, nextId + 1)[1]]

\* lines 381-394: the observers of a response in the order of their
\* registration, the start notification and the timer
Observers(req) ==
    <<"_processResponse">>
    \o (IF req.downloadProgressCallback THEN <<"_processDownloadProgress">> ELSE <<>>)
    \o (IF req.showProgress
        THEN <<"_notify_progress_upload", "_notify_progress_download",
               "_notify_progress_start_query">>
        ELSE <<>>)
    \o (IF req.timeout # NoTimeout THEN <<"_timeoutSlot">> ELSE <<>>)

\* the response handle sendCustomRequest returns, as dispatch leaves it:
\* running, no header received, and the context bound in its observers
Handle(req, query_id) ==
    [running |-> TRUE, aborted |-> FALSE, headers |-> FALSE,
     timer |-> req.timeout # NoTimeout, observers |-> Observers(req),
     context |-> BoundContext(IF req.context = "new" THEN NoContext
                                                     ELSE contexts[req.context],
                              query_id)[2]]

\* the handles after q (0: none) finished with resp and the trace's
\* submissions got theirs
HandlesAfter(q, resp, trace) ==
    LET sub == Only(trace, "submit")
        new == (nextId + 1)..(nextId + Len(sub))
    IN  [i \in DOMAIN handles \cup new |->
            IF i \in new THEN Handle(sub[i - nextId].req, i)
            ELSE IF i = q
            THEN [handles[i] EXCEPT
                     !.running = FALSE,
                     !.headers = @ \/ ~(resp.err # NoError /\ resp.err < 200)]
            ELSE handles[i]]

\* lines 125-156: one more event for a query if a progress callback is set
\* ("if HTTPClient._progress_callback:"), a run of progress events kept as one
Notify(events, e) ==
    IF _progress_callback = "None" THEN events
    ELSE IF e = "progress" /\ events # <<>> /\ events[Len(events)] = "progress"
    THEN events ELSE Append(events, e)

\* the sink after q (0: none) finished (_notify_progress_end_query, lines
\* 459-460) and the trace's submissions started (lines 387-391)
SinkAfter(q, trace) ==
    LET sub == Only(trace, "submit")
        new == (nextId + 1)..(nextId + Len(sub))
    IN  [i \in DOMAIN sink \cup new |->
            IF i \in new
            THEN IF sub[i - nextId].req.showProgress
                 THEN Notify(<<>>, "start") ELSE <<>>
            ELSE IF i = q THEN Notify(sink[i], "end")
            ELSE sink[i]]

Apply(op, q, req, resp, trace) ==
    /\ connected' = ConnectedAfter(connected, trace)
    /\ inflight' = InflightAfter(q, trace)
    /\ nextId' = nextId + Len(Only(trace, "submit"))
    /\ handles' = HandlesAfter(q, resp, trace)
    /\ sink' = SinkAfter(q, trace)
    /\ contexts' = ContextsAfter(trace)
    /\ ev' = Event(op, q, req, resp, connected, trace)

\* bootstrap probes in flight: each may still replay its call
Probes == {q \in DOMAIN inflight : inflight[q].callback = "_callbackConnect"}

-----------------------------------------------------------------------------
(* Actions *)

\* HTTPClient(settings): the client after __init__
Constructed(s) ==
    /\ connected = FALSE
    /\ inflight = <<>>
    /\ nextId = 0
    /\ wire = <<>>
    /\ buffer = <<>>
    /\ decoded = <<>>
    /\ handles = <<>>
    /\ sink = <<>>
    /\ contexts = [default |-> NoContext, caller |-> CallerContext]
    /\ settings = s
    /\ _progress_callback = "None"
    /\ progress_dialog = FALSE
    /\ canceled = <<>>
    /\ ev = Event("__init__", 0, NoRequest, NoResponse, FALSE, <<>>)

\* settings without user, for a server on this host
LocalSettings == [user |-> "", host |-> <<"127.0.0.1">>, port |-> "3080"]

Init ==
    /\ __version__ \in ClientVersions
    /\ Constructed(LocalSettings)

\* a call may be made when the requests submitted so far, with those the
\* probes in flight may replay and those of the call, are max at most
Budget(max) ==
    nextId + Cardinality(Probes) + (IF connected THEN 1 ELSE 2) <= max

\* the call of createHTTPQuery, as the event records it
Asked(call) == [NoRequest EXCEPT !.query = call]

\* mutant: the request is executed whether connected or not
createHTTPQuery_Direct(call) ==
    /\ Apply("createHTTPQuery", 0, Asked(call), NoResponse,
             _executeHTTPQuery(call.path, call.callback, call.ignoreErrors,
                               call.downloadProgressCallback, NoCall, call.body,
                               call.context, call.showProgress, call.timeout))
    /\ UNCHANGED <<__version__, wire, buffer, decoded, settings, _progress_callback, progress_dialog,
                   canceled>>

\* createHTTPQuery(method, path, callback, ..., ignoreErrors, downloadProgressCallback)
createHTTPQuery(call) ==
    /\ Apply("createHTTPQuery", 0, Asked(call), NoResponse,
             IF connected
             THEN _executeHTTPQuery(call.path, call.callback, call.ignoreErrors,
                                    call.downloadProgressCallback, NoCall,
                                    call.body, call.context, call.showProgress,
                                    call.timeout)
             ELSE _connect(call))
    /\ UNCHANGED <<__version__, wire, buffer, decoded, settings, _progress_callback, progress_dialog,
                   canceled>>

\* setHost(host), lines 82-83
setHost(host) ==
    /\ settings' = [settings EXCEPT !.host = host]
    /\ ev' = Event("setHost", 0, NoRequest, NoResponse, connected, <<>>)
    /\ UNCHANGED <<__version__, connected, inflight, nextId, wire, buffer, decoded,
                   handles, sink, contexts, _progress_callback, progress_dialog,
                   canceled>>

\* setPort(port), lines 91-92
setPort(port) ==
    /\ settings' = [settings EXCEPT !.port = port]
    /\ ev' = Event("setPort", 0, NoRequest, NoResponse, connected, <<>>)
    /\ UNCHANGED <<__version__, connected, inflight, nextId, wire, buffer, decoded,
                   handles, sink, contexts, _progress_callback, progress_dialog,
                   canceled>>

\* HTTPClient.setProgressCallback(progress_callback), lines 157-163, with None
\* or with a callback object whose progress_dialog() is None or a dialog
setProgressCallback(progress_callback) ==
    /\ _progress_callback' = progress_callback.callback
    /\ progress_dialog' = progress_callback.dialog
    /\ ev' = Event("setProgressCallback", 0, NoRequest, NoResponse, connected, <<>>)
    /\ UNCHANGED <<__version__, connected, inflight, nextId, wire, buffer, decoded,
                   handles, sink, contexts, settings, canceled>>

\* the transport emits finished for request q: _processResponse runs
Finished(q, resp) ==
    /\ q \in DOMAIN inflight
    /\ Apply("_processResponse", q, inflight[q], resp,
             _processResponse(inflight[q], resp))
    /\ UNCHANGED <<__version__, wire, buffer, decoded, settings, _progress_callback, progress_dialog,
                   canceled>>

\* close()
close ==
    /\ Apply("close", 0, NoRequest, NoResponse, <<CloseFx>>)
    /\ UNCHANGED <<__version__, wire, buffer, decoded, settings, _progress_callback, progress_dialog,
                   canceled>>

\* the headers of the response to request q arrive: the error state, status
\* and content type are known, the body follows in chunks
Headers(q, start) ==
    /\ q \in DOMAIN inflight
    /\ q \notin DOMAIN wire
    /\ handles[q].running
    /\ wire' = [i \in DOMAIN wire \cup {q} |->
                   IF i = q
                   THEN [err |-> start[1], status |-> start[2], ctype |-> start[3],
                         feed |-> start[4], pos |-> 0]
                   ELSE wire[i]]
    /\ decoded' = [i \in DOMAIN decoded \cup {q} |->
                      IF i = q THEN <<>> ELSE decoded[i]]
    /\ handles' = [handles EXCEPT
                       ![q].headers = start[1] = NoError \/ start[1] >= 200]
    /\ UNCHANGED <<__version__, connected, inflight, nextId, buffer, sink,
                   contexts, settings, _progress_callback, progress_dialog, canceled, ev>>

\* the transport emits downloadProgress for q with the next n bytes of the
\* body: the observers of the signal run, _processDownloadProgress (line 384)
\* and the forwarding to the sink (line 388), each if it is connected
DownloadProgress(q, n) ==
    /\ q \in DOMAIN wire
    /\ q \in DOMAIN inflight
    /\ handles[q].running
    /\ n >= 1
    /\ wire[q].pos + n <= Len(wire[q].feed)
    /\ LET w == wire[q]
           bytes == SubSeq(w.feed, w.pos + 1, w.pos + n)
           buf == IF q \in DOMAIN buffer THEN <<buffer[q]>> ELSE <<>>
           out == IF "_processDownloadProgress" \in Range(handles[q].observers)
                  THEN _processDownloadProgress(w.err, w.status, w.ctype, bytes, buf)
                  ELSE <<(<<>>), <<>> >>
           values == Only(out[1], "downloadProgressCallback")
       IN  /\ wire' = [wire EXCEPT ![q].pos = w.pos + n]
           /\ buffer' = IF out[2] = <<>> THEN buffer
                        ELSE [i \in DOMAIN buffer \cup {q} |->
                                 IF i = q THEN out[2][1] ELSE buffer[i]]
           /\ decoded' = [decoded EXCEPT ![q] =
                             @ \o [i \in 1..Len(values) |-> values[i].value]]
           /\ canceled' = canceled \o
                             [i \in 1..Len(Only(out[1], "canceled.connect")) |-> q]
           /\ sink' = IF "_notify_progress_download" \in Range(handles[q].observers)
                      THEN [sink EXCEPT ![q] = Notify(@, "progress")]
                      ELSE sink
    /\ UNCHANGED <<__version__, connected, inflight, nextId, handles, contexts,
                   settings, _progress_callback, progress_dialog, ev>>

Requests == {c \in Calls : ~c.downloadProgressCallback}

Next ==
    \/ \E call \in Requests : Budget(MaxRequests) /\ createHTTPQuery(call)
    \/ \E q \in DOMAIN inflight : \E resp \in Responses : Finished(q, resp)
    \/ close

Spec == Init /\ [][Next]_vars

\* the state after response.abort() on the reply of query q, as
\* <<connected, inflight, handles, sink>>: the completion of a running reply
\* notifies the end (lines 459-460), closes the client if its effects say so
\* and takes the request out of those in flight; a transport error submits
\* nothing; nothing happens to a reply that has finished
Abort(q, c, f, h, s) ==
    IF h[q].running
    THEN <<ConnectedAfter(c, _processResponse(f[q], Canceled)),
           [i \in DOMAIN f \ {q} |-> f[i]],
           [h EXCEPT ![q].running = FALSE, ![q].aborted = TRUE],
           [s EXCEPT ![q] = Notify(@, "end")]>>
    ELSE <<c, f, h, s>>

\* the one-shot timer of query q fires: _timeoutSlot runs
Timeout(q) ==
    /\ q \in DOMAIN handles
    /\ handles[q].timer
    /\ LET running == handles[q].running
           req == IF q \in DOMAIN inflight THEN inflight[q] ELSE NoRequest
           trace == _timeoutSlot(q, handles[q].headers, running, req)
           out == IF Has(trace, "abort")
                  THEN Abort(q, connected, inflight, handles, sink)
                  ELSE <<connected, inflight, handles, sink>>
       IN  /\ connected' = out[1]
           /\ inflight' = out[2]
           /\ handles' = [out[3] EXCEPT ![q].timer = FALSE]
           /\ sink' = out[4]
           /\ ev' = Event("_timeoutSlot", q, req,
                          IF Has(trace, "abort") /\ running THEN Canceled
                                                            ELSE NoResponse,
                          connected, trace)
    /\ UNCHANGED <<__version__, nextId, wire, buffer, decoded, contexts, settings,
                   _progress_callback, progress_dialog, canceled>>

\* the observers of the canceled signal run in the order of their
\* connections: <<connected, inflight, handles, sink, effects>> afterwards
RECURSIVE Canceling(_, _, _, _, _, _)
Canceling(observers, c, f, h, s, trace) ==
    IF observers = <<>> THEN <<c, f, h, s, trace>>
    ELSE LET q == Head(observers)
             fx == _requestCanceled(q, h[q].running,
                                    IF q \in DOMAIN f THEN f[q] ELSE NoRequest)
             out == IF Has(fx, "abort") THEN Abort(q, c, f, h, s)
                                        ELSE <<c, f, h, s>>
         IN  Canceling(Tail(observers), out[1], out[2], out[3],
                       [out[4] EXCEPT ![q] = Notify(@, "end")],
                       trace \o fx)

\* the user cancels in the progress dialog: canceled is emitted
Cancel ==
    /\ canceled # <<>>
    /\ \A q \in Range(canceled) : Len(sink[q]) + Len(canceled) < MaxEvents
    /\ LET out == Canceling(canceled, connected, inflight, handles, sink, <<>>)
       IN  /\ connected' = out[1]
           /\ inflight' = out[2]
           /\ handles' = out[3]
           /\ sink' = out[4]
           /\ ev' = Event("_requestCanceled", 0, NoRequest, NoResponse, connected,
                          out[5])
    /\ UNCHANGED <<__version__, nextId, wire, buffer, decoded, contexts, settings,
                   _progress_callback, progress_dialog, canceled>>

\* the progress callback shows its dialog
ShowDialog ==
    /\ _progress_callback # "None"
    /\ ~progress_dialog
    /\ progress_dialog' = TRUE
    /\ UNCHANGED <<__version__, connected, inflight, nextId, wire, buffer, decoded,
                   handles, sink, contexts, settings, _progress_callback,
                   canceled, ev>>

\* the arguments of setProgressCallback: None, a callback without dialog, a
\* callback whose dialog is shown
ProgressCallbacks ==
    {[callback |-> "None", dialog |-> FALSE],
     [callback |-> "callback", dialog |-> FALSE],
     [callback |-> "callback", dialog |-> TRUE]}

\* a notification feed: a request with a downloadProgressCallback
Feeds == {Call("cb", TRUE, TRUE)}

\* the /version answer of a server of the client's version
Welcome ==
    Response(NoError, 200, "application/json",
             Body("json", Dict(__version__, "true", "", "")))

\* the bodies of streamed responses: {} {} and {"e":1}, the second with a
\* character of two bytes, and one that is no JSON
AsciiFeed == <<"{", "}", " ", "{", "}">>
Utf8Feed == <<"{", "q", "L", "T", "q", ":", "1", "}">>
ShortFeed == <<"a", "a">>

\* (error code, status, content type, body) of the streamed responses
Streams ==
    {<<NoError, 200, "application/json", AsciiFeed>>,
     <<NoError, 200, "application/json", Utf8Feed>>,
     <<NoError, 200, "application/octet-stream", ShortFeed>>,
     <<NoError, 300, "application/json", ShortFeed>>,
     <<1, 200, "application/json", ShortFeed>>}

\* the client opens feeds on a server of its version, which streams the
\* responses in chunks of any size
NextStream ==
    \/ \E call \in Feeds : Budget(MaxRequests) /\ createHTTPQuery(call)
    \/ \E q \in Probes : Finished(q, Welcome)
    \/ \E q \in DOMAIN inflight \ Probes : \E start \in Streams : Headers(q, start)
    \/ \E q \in DOMAIN wire : \E n \in 1..Len(wire[q].feed) : DownloadProgress(q, n)

InitStream == Init /\ __version__ = StableClient

SpecStream == InitStream /\ [][NextStream]_vars

\* a feed with the default options and a request without progress and timeout
LifeCalls ==
    {CallWith("cb", FALSE, TRUE, DefaultBody, "caller", TRUE, DefaultTimeout),
     CallWith("cb", FALSE, FALSE, DefaultBody, "caller", FALSE, NoTimeout)}

\* completions: an accepted /version answer, a refused connection
LifeResponses ==
    {Welcome, Response(1, NoStatus, "", Body("empty", EmptyDict))}

LifeStreams == {<<NoError, 200, "application/octet-stream", ShortFeed>>}

\* the life of requests: dispatch, headers, chunks, timeout, cancellation by
\* the user, completion
NextLife ==
    \/ \E call \in LifeCalls : Budget(MaxRequests) /\ createHTTPQuery(call)
    \/ \E q \in DOMAIN inflight : \E resp \in LifeResponses : Finished(q, resp)
    \/ \E q \in DOMAIN inflight : \E start \in LifeStreams : Headers(q, start)
    \/ \E q \in DOMAIN wire : \E n \in 1..Len(wire[q].feed) : DownloadProgress(q, n)
    \/ \E q \in DOMAIN handles : Timeout(q)
    \/ \E callback \in {c \in ProgressCallbacks : c.dialog} :
          setProgressCallback(callback)
    \/ Cancel

SpecLife == InitStream /\ [][NextLife]_vars

\* feeds with and without ignoreErrors
AbortCalls ==
    {CallWith("cb", ign, TRUE, DefaultBody, "caller", TRUE, DefaultTimeout) :
        ign \in BOOLEAN}

\* requests that end by abort alone: the server accepts the client, sends
\* headers and chunks or nothing, and never completes a request; the timer
\* or the user's cancel aborts it
NextAbort ==
    \/ \E call \in AbortCalls : Budget(MaxFeeds) /\ createHTTPQuery(call)
    \/ \E q \in Probes : Finished(q, Welcome)
    \/ \E q \in DOMAIN inflight : \E start \in LifeStreams : Headers(q, start)
    \/ \E q \in DOMAIN wire : \E n \in 1..Len(wire[q].feed) : DownloadProgress(q, n)
    \/ \E q \in DOMAIN handles : Timeout(q)
    \/ \E callback \in ProgressCallbacks : setProgressCallback(callback)
    \/ ShowDialog
    \/ Cancel

SpecAbort == InitStream /\ [][NextAbort]_vars

\* the transport emits uploadProgress for request q: the forwarding to the
\* sink runs if it is connected (line 387)
UploadProgress(q) ==
    /\ q \in DOMAIN inflight
    /\ handles[q].running
    /\ "_notify_progress_upload" \in Range(handles[q].observers)
    /\ sink' = [sink EXCEPT ![q] = Notify(@, "progress")]
    /\ UNCHANGED <<__version__, connected, inflight, nextId, wire, buffer, decoded,
                   handles, contexts, settings, _progress_callback, progress_dialog, canceled, ev>>

\* requests with and without downloadProgressCallback and showProgress
ProgressCalls ==
    {CallWith("cb", FALSE, dpc, DefaultBody, "caller", show, DefaultTimeout) :
        dpc \in BOOLEAN, show \in BOOLEAN}

\* requests whose uploads and downloads make progress before they complete
NextProgress ==
    \/ \E call \in ProgressCalls : Budget(MaxRequests) /\ createHTTPQuery(call)
    \/ \E q \in DOMAIN inflight : Finished(q, Welcome)
    \/ \E q \in DOMAIN inflight \ Probes :
          \E start \in LifeStreams : Headers(q, start)
    \/ \E q \in DOMAIN wire : \E n \in 1..Len(wire[q].feed) : DownloadProgress(q, n)
    \/ \E q \in DOMAIN inflight \ Probes : UploadProgress(q)
    \/ \E callback \in ProgressCallbacks : setProgressCallback(callback)

SpecProgress == InitStream /\ [][NextProgress]_vars

\* calls that can be told apart
ProbeCalls == {Call("cb", FALSE, FALSE), Call("cb", TRUE, FALSE)}

\* completions: an accepted /version answer, an answer that is not one of a
\* GNS3 server, a refused connection
ProbeResponses ==
    {Welcome,
     Response(NoError, 200, "application/json", Body("json", EmptyDict)),
     Response(1, NoStatus, "", Body("empty", EmptyDict))}

\* several calls made while the client is not connected
NextProbes ==
    \/ \E call \in ProbeCalls : Budget(2 * MaxProbes) /\ createHTTPQuery(call)
    \/ \E q \in DOMAIN inflight : \E resp \in ProbeResponses : Finished(q, resp)
    \/ close

SpecProbes == InitStream /\ [][NextProbes]_vars

\* settings with and without user, for hosts given by name, by an IPv4
\* address and by an IPv6 address with and without scope id
Hosts ==
    {<<"127.0.0.1">>, <<"gns3.local">>, <<"::1">>, <<"fe80::1", "%", "eth0">>}
Ports == {"3080", "8000"}
Settings ==
    {[user |-> u, host |-> h, port |-> "3080"] : u \in {"", "admin"}, h \in Hosts}

\* bodies of every type: None, dicts, a path, texts, bytes, a list
BodiesToSend ==
    {[kind |-> "None", text |-> <<>>],
     DefaultBody,
     [kind |-> "dict", text |-> <<"{", "q", "e", "q", ":", "1", "}">>],
     [kind |-> "Path", text |-> <<"/", "a">>],
     [kind |-> "str", text |-> <<"a", "e">>],
     [kind |-> "bytes", text |-> <<"a", "a">>],
     [kind |-> "list", text |-> <<"[", "]">>]}

\* calls with every body
DispatchCalls ==
    {CallWith("cb", FALSE, FALSE, b, "caller", TRUE, DefaultTimeout) :
        b \in BodiesToSend}

\* dispatch by clients of every configuration
NextDispatch ==
    \/ \E call \in DispatchCalls : Budget(MaxRequests) /\ createHTTPQuery(call)
    \/ \E q \in DOMAIN inflight : \E resp \in ProbeResponses : Finished(q, resp)
    \/ close
    \/ \E host \in {<<"::1">>} : setHost(host)
    \/ \E port \in Ports : setPort(port)

InitDispatch ==
    /\ __version__ = StableClient
    /\ \E s \in Settings : Constructed(s)

SpecDispatch == InitDispatch /\ [][NextDispatch]_vars

-----------------------------------------------------------------------------
(* Vocabulary of the properties *)

Finishes == ev.op = "_processResponse"
Bootstrap(req) == req.path = "/version" /\ req.callback = "_callbackConnect"
\* a finished bootstrap probe, and the callback of the call it defers
Probe == Finishes /\ Bootstrap(ev.req)
Caller == ev.req.query.callback

Count(trace, t) == Len(Only(trace, t))
\* the caller's function was called once, with an error and this message
ToldError(msg) ==
    /\ Count(ev.trace, "callback") = 1
    /\ \E i \in 1..Len(ev.trace) :
          /\ ev.trace[i].t = "callback"
          /\ ev.trace[i].error
          /\ ev.trace[i].params.message = msg
\* the handler neither set the connected flag nor submitted a request
NothingSent == ~Has(ev.trace, "connected") /\ ~Has(ev.trace, "submit")

\* no HTTP response was obtained
NoHttpResponse(resp) == resp.err # NoError /\ resp.err < 200
\* the reply is a failure: of the transport, or an HTTP error
Failed(resp) == resp.err # NoError \/ resp.status >= 400
\* the reply carries a JSON object under the JSON content type
JsonObject(resp) == resp.ctype = "application/json" /\ resp.body.kind = "json"
\* the body of the reply, where JSON is announced, is text that is no JSON
Malformed(resp) == resp.ctype = "application/json" /\ resp.body.kind = "garbage"

\* client c may talk to a server of version s
Compatible(c, s) == s = c \/ (c[4] # 0 /\ c[1] = s[1] /\ c[2] = s[2])
\* the reply to a probe is a success that passes the validation
Accepted(resp) ==
    /\ ~Failed(resp)
    /\ JsonObject(resp)
    /\ resp.body.doc.version # NoVersion
    /\ resp.body.doc.local # ""
    /\ Compatible(__version__, resp.body.doc.version)

\* the request the call deferred behind a probe asks for
Replay(query) ==
    Request(query.path, query.callback, query.ignoreErrors,
            query.downloadProgressCallback, NoCall, query.body, query.context,
            query.showProgress, query.timeout)

-----------------------------------------------------------------------------
(* C1 - C8: handshake and response classifier *)

\* C1: a createHTTPQuery call made while not connected submits only a GET
\* /version probe; the request it asks for is submitted only by the handler
\* of that probe, and only when the probe's reply is no failure and passes
\* the validation; no other handler submits a request.
C1_DeferredBehindHandshake ==
    /\ (ev.op = "createHTTPQuery" /\ ~ev.was) =>
          /\ Len(ev.trace) = 1
          /\ ev.trace[1].t = "submit"
          /\ Bootstrap(ev.trace[1].req)
    /\ \A i \in 1..Len(ev.trace) :
          (ev.trace[i].t = "submit" /\ ~Bootstrap(ev.trace[i].req)) =>
             \/ ev.op = "createHTTPQuery" /\ ev.was
             \/ /\ Probe
                /\ Accepted(ev.resp)
                /\ ev.trace[i].req = Replay(ev.req.query)
    /\ (Probe /\ ~Accepted(ev.resp)) => ~Has(ev.trace, "submit")

C1_Witness ==
    /\ Probe
    /\ ~ev.was
    /\ Count(ev.trace, "submit") = 1
    /\ \E q \in DOMAIN inflight : inflight[q] = Replay(ev.req.query)

\* C2: connected is false at construction and becomes true only in the
\* handler of a bootstrap probe whose reply is no failure and passes the
\* validation (fields present, version compatible).
C2_ConnectedOnlyByHandshake ==
    /\ ~connected
    /\ [][(connected' /\ ~connected) => (Probe' /\ Accepted(ev'.resp))]_vars

C2_Witness == connected /\ Probe /\ ~ev.was

\* C3 as stated: after any request finishes without HTTP response, connected
\* is false and the request's callback got an error with a message.
C3_AnyTransportError ==
    (Finishes /\ NoHttpResponse(ev.resp)) =>
        /\ ~connected
        /\ ev.req.callback = "cb" => ToldError("errorString")
        /\ (Bootstrap(ev.req) /\ Caller = "cb") => ToldError("Cannot connect")

\* C3 amended: that holds for a request without ignoreErrors; with
\* ignoreErrors the handler changes nothing and calls nothing.
C3_TransportErrorResets ==
    (Finishes /\ NoHttpResponse(ev.resp)) =>
        IF ev.req.ignoreErrors
        THEN ev.trace = <<>> /\ connected = ev.was
        ELSE /\ ~connected
             /\ ev.req.callback = "cb" => ToldError("errorString")
             /\ (Bootstrap(ev.req) /\ Caller = "cb") => ToldError("Cannot connect")

C3_Witness ==
    /\ Finishes
    /\ NoHttpResponse(ev.resp)
    /\ ev.was
    /\ ~connected
    /\ ev.req.callback = "cb"
    /\ ToldError("errorString")

\* the number of times the handler called the request's callback
Invocations ==
    IF Bootstrap(ev.req) THEN Count(ev.trace, "_callbackConnect")
                         ELSE Count(ev.trace, "callback")

\* C4 as stated: the completion handler calls a callback that is not None
\* exactly once, whatever the reply and the ignoreErrors flag.
C4_ExactlyOnce ==
    (Finishes /\ ev.req.callback # "None") => Invocations = 1

\* C4 amended: it calls the callback at most once, and not at all in exactly
\* two cases: no HTTP response and ignoreErrors set; no error flag and a body
\* that is no JSON under the JSON content type (json.loads raises first).
C4_AtMostOnce ==
    (Finishes /\ ev.req.callback # "None") =>
        /\ Invocations <= 1
        /\ Invocations = 0 <=>
              \/ NoHttpResponse(ev.resp) /\ ev.req.ignoreErrors
              \/ ev.resp.err = NoError /\ Malformed(ev.resp)

C4_Witness ==
    /\ Finishes
    /\ ev.req.callback = "cb"
    /\ ev.resp.err = NoError
    /\ ev.resp.status = 200
    /\ Invocations = 1

\* the validation reached the comparison of versions
Compared == Probe /\ ~Failed(ev.resp) /\ JsonObject(ev.resp)
               /\ ev.resp.body.doc.version # NoVersion /\ ev.resp.body.doc.local # ""
ServerVersion == ev.resp.body.doc.version
Proceeds == Has(ev.trace, "connected") /\ connected /\ Count(ev.trace, "submit") = 1
Refused ==
    /\ NothingSent
    /\ connected = ev.was
    /\ Caller = "cb" => ToldError("version differs")

\* C5: equal versions proceed; on a development client (4th component not 0)
\* versions with equal major and minor proceed; versions that differ in major
\* or minor are refused; on a stable client any difference is refused.  A
\* refusal neither sets connected nor submits the request.
C5_VersionDecision ==
    Compared =>
        /\ Proceeds \/ Refused
        /\ ServerVersion = __version__ => Proceeds
        /\ (__version_info__(__version__)[4] # 0
               /\ ServerVersion[1] = __version__[1]
               /\ ServerVersion[2] = __version__[2]) => Proceeds
        /\ (ServerVersion[1] # __version__[1] \/ ServerVersion[2] # __version__[2])
              => Refused /\ ~Proceeds
        /\ (__version_info__(__version__)[4] = 0 /\ ServerVersion # __version__)
              => Refused /\ ~Proceeds

C5_Witness ==
    /\ Compared
    /\ __version__ = DevClient
    /\ ServerVersion = <<2, 1, 1, 0>>
    /\ Proceeds

\* C6: when the bootstrap probe fails (no HTTP response, or an HTTP error),
\* the caller's callback gets the connection error, connected is not set and
\* the deferred request is not submitted.
C6_BootstrapFailure ==
    (Probe /\ Failed(ev.resp)) =>
        /\ Caller = "cb" => ToldError("Cannot connect")
        /\ NothingSent

\* the dictionary the classifier hands to the validation of a probe
Params == IF JsonObject(ev.resp) THEN ev.resp.body.doc ELSE EmptyDict
Validated == Probe /\ Has(ev.trace, "_callbackConnect") /\ ~Failed(ev.resp)

\* C7 as stated: the probe is rejected as "not a GNS3 server" exactly when
\* its answer lacks both the version and the local field.
C7_LacksBoth ==
    (Validated /\ Caller = "cb") =>
        (ToldError("not a GNS3 server")
            <=> (Params.version = NoVersion /\ Params.local = ""))

\* C7 amended: exactly when its answer lacks the version or the local field;
\* only an answer with both fields goes on to the comparison of versions.
C7_LacksEither ==
    /\ (Validated /\ Caller = "cb") =>
          (ToldError("not a GNS3 server")
              <=> (Params.version = NoVersion \/ Params.local = ""))
    /\ (Validated /\ (Params.version = NoVersion \/ Params.local = "")) =>
          NothingSent /\ connected = ev.was

C7_Witness ==
    /\ Validated
    /\ Caller = "cb"
    /\ Params.version # NoVersion
    /\ Params.local = ""
    /\ ToldError("not a GNS3 server")

\* the HTTP status the handler resolved: none without HTTP response
Resolved == IF NoHttpResponse(ev.resp) THEN NoStatus ELSE ev.resp.status

\* C8: HttpBadRequest is raised by every completion with status 400 and by no
\* other; it is the last effect, after the callback, which got error = TRUE;
\* its fingerprint is the path of the JSON body, if it has one.
C8_BadRequestSignal ==
    Finishes =>
        /\ Resolved = 400 <=>
              \E i \in 1..Len(ev.trace) :
                 ev.trace[i].t = "raise" /\ ev.trace[i].exc = "HttpBadRequest"
        /\ \A i \in 1..Len(ev.trace) :
              ev.trace[i].t = "raise" =>
                 /\ i = Len(ev.trace)
                 /\ ev.trace[i].exc = "HttpBadRequest"
                 /\ ev.trace[i].fingerprint =
                       (IF ev.resp.body.kind = "json" THEN ev.resp.body.doc.path ELSE "")
                 /\ ev.req.callback # "None" => Invocations = 1
                 /\ \A j \in 1..(i - 1) :
                       ev.trace[j].t \in {"callback", "_callbackConnect"}
                          => ev.trace[j].error

-----------------------------------------------------------------------------
(* C9 - C10: streaming decoder *)

\* a streamed response the decoder decodes as JSON
JsonStream(w) == w.err = NoError /\ w.status < 300 /\ w.ctype = "application/json"
\* the values of a body that arrives in one chunk
OneChunk(feed) == DecodeLoop(decode(feed)[2])[1]
IsPrefix(s, t) == Len(s) <= Len(t) /\ s = SubSeq(t, 1, Len(s))

\* C9: however the body of a JSON feed is cut into chunks, and whatever other
\* feeds are served in between, the callback gets the values of the body in
\* one chunk: at any time the first of them, in order, and all of them once
\* the last byte is delivered.
C9_FragmentationInvariant ==
    \A q \in DOMAIN wire :
        JsonStream(wire[q]) =>
            /\ IsPrefix(decoded[q], OneChunk(wire[q].feed))
            /\ wire[q].pos = Len(wire[q].feed) => decoded[q] = OneChunk(wire[q].feed)

\* C10: a chunk of a response that carries an error or a status >= 300 is
\* dropped: no call of the downloadProgressCallback, the buffer unchanged.
C10_ErrorChunksDropped ==
    [][\A q \in DOMAIN wire :
          (wire'[q].pos > wire[q].pos
              /\ (wire[q].err # NoError \/ wire[q].status >= 300))
          => (decoded'[q] = decoded[q] /\ buffer' = buffer)]_vars

\* a response with an error and one with status 300, both delivered and
\* dropped, beside a feed that was decoded
C10_Witness ==
    \E q1, q2 \in DOMAIN wire :
        /\ wire[q1].err # NoError /\ wire[q1].pos = Len(wire[q1].feed)
        /\ decoded[q1] = <<>> /\ q1 \notin DOMAIN buffer
        /\ JsonStream(wire[q2]) /\ decoded[q2] # <<>>

-----------------------------------------------------------------------------
(* C12 - C13: what the classifier delivers *)

\* the calls of the request's callback, in order
Delivered ==
    Only(ev.trace, IF Bootstrap(ev.req) THEN "_callbackConnect" ELSE "callback")
\* the parsed body of a reply: its JSON object where JSON is announced and
\* the body is one, the empty mapping otherwise
Parsed(resp) == IF JsonObject(resp) THEN resp.body.doc ELSE EmptyDict

\* C12: a completion with an HTTP response calls a callback that is not None
\* with error = TRUE exactly when the transport flagged an error or the
\* status is >= 400; on a success it hands over the raw body text too, and
\* the parsed body is the empty mapping unless the body is a JSON object.
C12_ErrorFlagAndRawBody ==
    (Finishes /\ ~NoHttpResponse(ev.resp) /\ ev.req.callback # "None") =>
        /\ Len(Delivered) = 1
        /\ Delivered[1].error = Failed(ev.resp)
        /\ ~Failed(ev.resp) =>
              /\ Delivered[1].raw_body
              /\ Delivered[1].params = Parsed(ev.resp)

\* the same, set apart the replies whose body json.loads rejects at line 513
C12_ButMalformed ==
    (Finishes /\ ~NoHttpResponse(ev.resp) /\ ev.req.callback # "None"
        /\ ~(ev.resp.err = NoError /\ Malformed(ev.resp))) =>
        /\ Len(Delivered) = 1
        /\ Delivered[1].error = Failed(ev.resp)
        /\ ~Failed(ev.resp) =>
              /\ Delivered[1].raw_body
              /\ Delivered[1].params = Parsed(ev.resp)

\* the body of the reply fails UTF-8 decoding, or JSON parsing where JSON is
\* announced
MalformedBody(resp) == resp.body.kind = "undecodable" \/ Malformed(resp)

\* C13: a completion with an HTTP response whose body is malformed raises
\* nothing but HttpBadRequest, and calls a callback that is not None once,
\* with the generic message or the empty mapping.
C13_NoDecodeException ==
    (Finishes /\ ~NoHttpResponse(ev.resp) /\ MalformedBody(ev.resp)) =>
        /\ \A i \in 1..Len(ev.trace) :
              ev.trace[i].t = "raise" => ev.trace[i].exc = "HttpBadRequest"
        /\ ev.req.callback # "None" =>
              /\ Len(Delivered) = 1
              /\ Delivered[1].params \in {error_message, EmptyDict}

-----------------------------------------------------------------------------
(* C11: the timeout *)

\* the last event is the timer of a request firing
TimerFires == ev.op = "_timeoutSlot"
\* that request had not completed when the timer fired
Pending == ev.req # NoRequest

\* C11: dispatch schedules a timer exactly for a timeout that is not None;
\* the timer fires once; when it fires it calls abort exactly if the request
\* is still pending and no header has arrived, so never for a request that
\* has completed.
C11_TimeoutAborts ==
    /\ \A i \in 1..Len(ev.trace) :
          ev.trace[i].t = "submit" =>
             handles[nextId].timer = (ev.trace[i].req.timeout # NoTimeout)
    /\ TimerFires =>
          /\ ~handles[ev.q].timer
          /\ Has(ev.trace, "abort") <=> (Pending /\ ~handles[ev.q].headers)

\* the same for the timers of pending requests alone
C11_PendingOnly ==
    /\ \A i \in 1..Len(ev.trace) :
          ev.trace[i].t = "submit" =>
             handles[nextId].timer = (ev.trace[i].req.timeout # NoTimeout)
    /\ TimerFires =>
          /\ ~handles[ev.q].timer
          /\ Pending => (Has(ev.trace, "abort") <=> ~handles[ev.q].headers)

-----------------------------------------------------------------------------
(* C14: contexts and query ids *)

\* C14: the mapping objects passed as context keep the keys and values they
\* had; the context bound to a request has the entries of the mapping passed
\* for it and a query_id, which no other request has.
C14_ContextNotMutated ==
    /\ contexts = [default |-> NoContext, caller |-> CallerContext]
    /\ \A q \in DOMAIN handles :
          /\ "query_id" \in DOMAIN handles[q].context
          /\ \A p \in DOMAIN handles :
                p # q => handles[p].context["query_id"] # handles[q].context["query_id"]
    /\ \A q \in DOMAIN inflight :
          LET passed == IF inflight[q].context = "new" THEN NoContext
                        ELSE contexts[inflight[q].context]
          IN  /\ DOMAIN handles[q].context = DOMAIN passed \cup {"query_id"}
              /\ \A k \in DOMAIN passed : handles[q].context[k] = passed[k]

\* a probe, the request replayed after it and a request dispatched directly,
\* the two with the caller's mapping
C14_Witness ==
    /\ ev.op = "createHTTPQuery"
    /\ ev.was
    /\ Cardinality(DOMAIN handles) = 3
    /\ Cardinality({q \in DOMAIN handles : "node_id" \in DOMAIN handles[q].context}) = 2

-----------------------------------------------------------------------------
(* C15: one probe per call *)

\* C15: every call made while not connected submits a probe of its own, also
\* when probes are in flight; the completion of a probe replays the call of
\* that probe alone and leaves the other probes in flight as they are.
C15_NoCoalescing ==
    /\ [](((ev.op = "createHTTPQuery" /\ ~ev.was) =>
              /\ Len(ev.trace) = 1
              /\ ev.trace[1].t = "submit"
              /\ Bootstrap(ev.trace[1].req)
              /\ ev.trace[1].req.query = ev.req.query
              /\ inflight[nextId] = ev.trace[1].req)
           /\ (Probe =>
                 /\ Count(ev.trace, "submit") <= 1
                 /\ \A i \in 1..Len(ev.trace) :
                       ev.trace[i].t = "submit" =>
                          ev.trace[i].req = Replay(ev.req.query)))
    /\ [][/\ (ev'.op = "createHTTPQuery" /\ ~connected) =>
                Cardinality(Probes') = Cardinality(Probes) + 1
          /\ \A q \in Probes :
                \/ q \in DOMAIN inflight' /\ inflight'[q] = inflight[q]
                \/ Probe' /\ ev'.q = q]_vars

\* two probes in flight together, both accepted: the second replays its call
\* beside the replayed call of the first
C15_Witness ==
    /\ Probe
    /\ ev.q = 2
    /\ DOMAIN inflight = {3, 4}
    /\ inflight[4] = Replay(ev.req.query)
    /\ inflight[3] # inflight[4]

-----------------------------------------------------------------------------
(* C16 - C17: what is submitted to the transport *)

\* the requests the last handler submitted
Submitted == {ev.trace[i].req : i \in {j \in 1..Len(ev.trace) : ev.trace[j].t = "submit"}}
\* the user and host part of a URL: [user@]host, an IPv6 address in brackets
\* and without scope id
Authority ==
    (IF settings.user # "" THEN <<settings.user, "@">> ELSE <<>>)
    \o (IF settings.host[1] \in {"::1", "fe80::1"}
        THEN <<"[", settings.host[1], "]">> ELSE settings.host)

\* C16 as stated: the bootstrap request goes to /version without the /v2
\* prefix, every other request to protocol://[user@]host:port/v2{path}.
C16_BootstrapBypassesPrefix ==
    \A req \in Submitted :
        req.url = <<"http", "://">> \o Authority \o <<":", settings.port>>
                     \o (IF Bootstrap(req) THEN <<>> ELSE <<"/v2">>) \o <<req.path>>

\* C16 amended: every request, the bootstrap request too, goes to
\* protocol://[user@]host:port/v2{path}; the bootstrap path is /version.
C16_PrefixOnEveryRequest ==
    \A req \in Submitted :
        /\ req.url = <<"http", "://">> \o Authority
                        \o <<":", settings.port, "/v2", req.path>>
        /\ Bootstrap(req) => req.path = "/version"

\* a probe of a client with a user, for an IPv6 host with scope id
C16_Witness ==
    /\ ev.op = "createHTTPQuery"
    /\ settings.user = "admin"
    /\ settings.host = <<"fe80::1", "%", "eth0">>
    /\ \E req \in Submitted :
          /\ Bootstrap(req)
          /\ req.url = <<"http", "://", "admin", "@", "[", "fe80::1", "]", ":",
                         "3080", "/v2", "/version">>

\* C17: the body codec, by the kind of the body: none: no payload, no
\* content header; mapping: JSON payload in memory, Content-Type
\* application/json, Content-Length the number of bytes of the payload; path:
\* the file as payload, Content-Type application/octet-stream, no
\* Content-Length; bytes or text: payload in memory, Content-Type
\* application/octet-stream; anything else: no payload, no content header.
C17_BodyCodec ==
    \A req \in Submitted :
        LET c == req.content
        IN  /\ req.body.kind = "None" => c = NoContent
            /\ req.body.kind = "dict" =>
                  /\ c.device = "QBuffer"
                  /\ c.ContentType = "application/json"
                  /\ c.ContentLength = <<Len(c.data)>>
            /\ req.body.kind = "Path" =>
                  /\ c.device = "QFile"
                  /\ c.ContentType = "application/octet-stream"
                  /\ c.ContentLength = <<>>
            /\ req.body.kind \in {"str", "bytes"} =>
                  /\ c.device = "QBuffer"
                  /\ c.ContentType = "application/octet-stream"
            /\ req.body.kind \notin {"None", "dict", "Path", "str", "bytes"} =>
                  c = NoContent

\* the same, bodies of bytes set apart
C17_ButBytes ==
    \A req \in Submitted :
        LET c == req.content
        IN  /\ req.body.kind = "None" => c = NoContent
            /\ req.body.kind = "dict" =>
                  /\ c.device = "QBuffer"
                  /\ c.ContentType = "application/json"
                  /\ c.ContentLength = <<Len(c.data)>>
            /\ req.body.kind = "Path" =>
                  /\ c.device = "QFile"
                  /\ c.ContentType = "application/octet-stream"
                  /\ c.ContentLength = <<>>
            /\ req.body.kind = "str" =>
                  /\ c.device = "QBuffer"
                  /\ c.ContentType = "application/octet-stream"
            /\ req.body.kind \notin {"None", "dict", "Path", "str", "bytes"} =>
                  c = NoContent

-----------------------------------------------------------------------------
(* C18: the stream buffer *)

\* the part of a feed delivered so far
Received(w) == SubSeq(w.feed, 1, w.pos)

\* C18: the buffer has an entry for a query only while text of it is left
\* undecoded: no entry is empty, and a JSON feed whose delivered bytes are
\* complete values has none.
C18_BufferOnlyRemainder ==
    /\ \A q \in DOMAIN buffer : buffer[q] # <<>>
    /\ \A q \in DOMAIN wire :
          (JsonStream(wire[q]) /\ decode(Received(wire[q]))[1]
              /\ DecodeLoop(decode(Received(wire[q]))[2])[2] = <<>>)
          => q \notin DOMAIN buffer

\* what the buffer does hold: for a JSON feed of ASCII text that has got a
\* chunk, the text that is left undecoded, be it empty
C18_RemainderKept ==
    \A q \in DOMAIN wire :
        (JsonStream(wire[q]) /\ wire[q].feed = AsciiFeed /\ wire[q].pos > 0) =>
            /\ q \in DOMAIN buffer
            /\ buffer[q] = DecodeLoop(Received(wire[q]))[2]

-----------------------------------------------------------------------------
(* C19: abort *)

\* in this step _timeoutSlot or _requestCanceled calls abort() on the response
\* of request q, which is in flight
Aborts(q) ==
    /\ handles[q].running
    /\ ev'.op \in {"_requestCanceled", "_timeoutSlot"}
    /\ \E i \in 1..Len(ev'.trace) : ev'.trace[i] = AbortFx(q)
\* the effects that follow abort() on the response of q in the trace, up to
\* the next abort or end notification of the handlers: those of the
\* completion handler, which runs inside abort()
Completion(trace, q) ==
    LET i == CHOOSE i \in 1..Len(trace) : trace[i] = AbortFx(q)
        rest == SubSeq(trace, i + 1, Len(trace))
        stops == {k \in 1..Len(rest) : rest[k].t \in {"abort", "end"}}
    IN  IF stops = {} THEN rest
        ELSE SubSeq(rest, 1, (CHOOSE k \in stops : \A l \in stops : k <= l) - 1)
\* the completion handler has run for q, whose reply is aborted
Completed(q) ==
    /\ q \notin DOMAIN inflight'
    /\ ~handles'[q].running
    /\ handles'[q].aborted
\* the sink has got the end of q after what it had
EndNotified(q) ==
    /\ Len(sink'[q]) > Len(sink[q])
    /\ sink'[q][Len(sink[q]) + 1] = "end"
\* the effects hold an error result with the message for the callback
ErrorResultIn(trace) ==
    \E i \in 1..Len(trace) :
        /\ trace[i].t \in {"callback", "_callbackConnect"}
        /\ trace[i].error
        /\ trace[i].params = error_message
\* the callbacks of callers called in this step are no more than the
\* completions that may call one
OnlyCompletionsCall ==
    ev'.op \in {"_requestCanceled", "_timeoutSlot"} =>
        Len(Only(ev'.trace, "callback"))
            <= Cardinality({q \in DOMAIN handles : Aborts(q)})

\* C19 as stated: an abort of a request in flight, by the user's cancel or by
\* the timeout, makes the completion handler run for it; the end is notified,
\* the client is no longer connected and the callback, if any, gets an error
\* result with the message, as for any transport error; no other path of the
\* cancel or timeout handler delivers anything.
C19_AbortResets ==
    [][/\ \A q \in DOMAIN handles :
              Aborts(q) =>
                  /\ Completed(q)
                  /\ EndNotified(q)
                  /\ ~connected'
                  /\ Has(Completion(ev'.trace, q), "close")
                  /\ inflight[q].callback # "None" =>
                        ErrorResultIn(Completion(ev'.trace, q))
        /\ OnlyCompletionsCall]_vars

\* C19, amended: the completion handler runs for the aborted request before
\* abort() returns; the end is notified to the progress callback that is set,
\* if one is; the reset and the error result are those of a request made
\* without ignoreErrors; with ignoreErrors the completion of the aborted
\* request notifies the end and does nothing else.
C19_AbortCompletes ==
    [][/\ \A q \in DOMAIN handles :
              Aborts(q) =>
                  LET done == Completion(ev'.trace, q)
                  IN  /\ Completed(q)
                      /\ _progress_callback # "None" => EndNotified(q)
                      /\ ~inflight[q].ignoreErrors =>
                            /\ ~connected'
                            /\ done # <<>> /\ done[1] = CloseFx
                            /\ inflight[q].callback # "None" => ErrorResultIn(done)
                            /\ inflight[q].callback = "None" => done = <<CloseFx>>
                      /\ inflight[q].ignoreErrors =>
                            /\ done = <<>>
                            /\ ev'.op = "_timeoutSlot" => connected' = connected
        /\ OnlyCompletionsCall]_vars

\* the last handler called abort() on a response that was running
AbortCalled == Has(ev.trace, "abort") /\ \E q \in DOMAIN handles :
                   /\ handles[q].aborted
                   /\ \E i \in 1..Len(ev.trace) : ev.trace[i] = AbortFx(q)
\* the sink's last event for request q is its end
Ended(q) == sink[q] # <<>> /\ sink[q][Len(sink[q])] = "end"

\* a feed made without ignoreErrors, canceled by the user after a chunk, has
\* completed: the client is closed and the callback has the error
C19_Witness ==
    /\ ev.op = "_requestCanceled"
    /\ AbortCalled
    /\ \E q \in DOMAIN handles :
          /\ handles[q].aborted /\ handles[q].headers
          /\ q \notin DOMAIN inflight
          /\ Ended(q)
    /\ Has(ev.trace, "close")
    /\ ~connected /\ ev.was
    /\ ErrorResultIn(ev.trace)

\* a request aborted by its timeout has completed
C19_TimedOut ==
    /\ ev.op = "_timeoutSlot"
    /\ ev.resp = Canceled
    /\ handles[ev.q].aborted /\ ~handles[ev.q].headers
    /\ ev.q \notin DOMAIN inflight
    /\ ErrorResultIn(ev.trace)

\* a feed made with ignoreErrors was aborted by its timeout: the client is
\* still connected and nothing was called
C19_Ignored ==
    /\ ev.op = "_timeoutSlot"
    /\ ev.resp = Canceled
    /\ ev.req.ignoreErrors
    /\ ev.trace = <<AbortFx(ev.q)>>
    /\ connected

-----------------------------------------------------------------------------
(* C20: the order of the observers *)

\* the place of an observer in the order of registration, 0 if it is not
\* registered
Place(o, name) ==
    IF \E i \in 1..Len(o) : o[i] = name
    THEN CHOOSE i \in 1..Len(o) : o[i] = name
    ELSE 0

\* the observers of the requests in flight are in the order of lines 381-391:
\* the completion handler first; the streaming decoder next, exactly for a
\* request with a downloadProgressCallback; then the forwarding of upload and
\* download progress, and after all of those the start notification, both
\* exactly for a request with showProgress
OrderOfObservers ==
    \A q \in DOMAIN inflight :
        LET o == handles[q].observers
            req == inflight[q]
            start == Place(o, "_notify_progress_start_query")
        IN  /\ Place(o, "_processResponse") = 1
            /\ Place(o, "_processDownloadProgress") =
                  (IF req.downloadProgressCallback THEN 2 ELSE 0)
            /\ (start # 0) = req.showProgress
            /\ start # 0 =>
                  /\ Place(o, "_notify_progress_upload") # 0
                  /\ Place(o, "_notify_progress_download") # 0
                  /\ \A name \in {"_processResponse", "_processDownloadProgress",
                                   "_notify_progress_upload",
                                   "_notify_progress_download"} :
                        Place(o, name) < start
                  /\ Place(o, "_processDownloadProgress")
                        < Place(o, "_notify_progress_upload")

\* C20: the observers are registered in that order and the start is notified
\* after the registrations; hence no progress event of a query reaches the
\* sink before the start event of the query, and a start event is there only
\* for a query with showProgress.
C20_StartAfterObservers ==
    /\ OrderOfObservers
    /\ \A q \in DOMAIN inflight :
          "start" \in Range(sink[q]) => inflight[q].showProgress
    /\ \A q \in DOMAIN sink :
          \A i \in 1..Len(sink[q]) :
              sink[q][i] = "progress" =>
                  \E j \in 1..(i - 1) : sink[q][j] = "start"

\* what holds instead: the order of the observers; a start event is the
\* first event of its query and there for a query with showProgress only;
\* a query without showProgress has no progress event
C20_StartIsFirst ==
    /\ OrderOfObservers
    /\ \A q \in DOMAIN inflight :
          /\ "start" \in Range(sink[q]) => inflight[q].showProgress
          /\ "progress" \in Range(sink[q]) => inflight[q].showProgress
    /\ \A q \in DOMAIN sink :
          \A i \in 1..Len(sink[q]) : sink[q][i] = "start" => i = 1

\* a feed made with showProgress while a progress callback is set has started
\* and made progress
C20_Started ==
    \E q \in DOMAIN inflight :
        /\ inflight[q].downloadProgressCallback
        /\ inflight[q].showProgress
        /\ sink[q] = <<"start", "progress">>

-----
(* C21: the end notification *)

\* the end events the sink has got for query q
Ends(q) == Len(SelectSeq(sink[q], LAMBDA e : e = "end"))

\* C21: the sink gets the end event of a query at most once, whatever the
\* chunks, the user's cancel, the timeout and the completion do.
C21_EndAtMostOnce == \A q \in DOMAIN sink : Ends(q) <= 1

\* what holds instead: the completion handler notifies the end once, and
\* every further end event is one of a cancel observer of the query
C21_EndsOfCancel ==
    \A q \in DOMAIN sink :
        /\ q \in DOMAIN inflight /\ q \notin Range(canceled) => Ends(q) = 0
        /\ q \notin DOMAIN inflight /\ q \notin Range(canceled) => Ends(q) <= 1
        /\ (Finishes /\ ev.q = q /\ q \notin Range(canceled)) =>
              Ends(q) = (IF _progress_callback # "None" THEN 1 ELSE 0)

-----------------------------------------------------------------------------
(* C22: the context of the callback *)

\* the calls of the caller's function made by the last handler
CallerCalls == Only(ev.trace, "callback")
\* the context bound to the finished request is the mapping of its caller
\* with the query id of the request
OwnContext ==
    LET context == handles[ev.q].context
        given == IF ev.req.context = "new" THEN NoContext
                 ELSE contexts[ev.req.context]
    IN  /\ DOMAIN context = DOMAIN given \cup {"query_id"}
        /\ context["query_id"] = ev.q
        /\ \A k \in DOMAIN given : context[k] = given[k]

\* C22: every call of a caller's callback passes the context of the request:
\* after a success, an HTTP error, a transport error, and when the handshake
\* rejects the server for a call made while disconnected.
C22_CallbackCarriesContext ==
    /\ \A i \in 1..Len(CallerCalls) : CallerCalls[i].context
    /\ (Finishes /\ CallerCalls # <<>>) => OwnContext

\* what holds instead: the completion of a request of the caller passes the
\* context; the handshake, when it rejects, calls the callback without one
C22_ButHandshake ==
    Finishes =>
        /\ ~Bootstrap(ev.req) =>
              /\ \A i \in 1..Len(CallerCalls) : CallerCalls[i].context
              /\ OwnContext
        /\ Bootstrap(ev.req) =>
              \A i \in 1..Len(CallerCalls) : ~CallerCalls[i].context

====
